---- MODULE Spec2Model ----
(***************************************************************************)
(* StreamManager and RecordingManager of the camera relay server.          *)
(*                                                                         *)
(* StreamManager keeps a Map from stream key to ActiveStream; every        *)
(* ActiveStream owns one ffmpeg child process, a set of WebSocket clients, *)
(* the handle of its last armed cleanup timer and the last chunk ffmpeg    *)
(* wrote.  RecordingManager keeps a Map from channel id to                 *)
(* ActiveRecording, each owning one ffmpeg child process.                  *)
(*                                                                         *)
(* Time is counted in ticks of 15 s: a timer carries the ticks that remain *)
(* until it is due, and the clock does not pass a due timer.               *)
(***************************************************************************)
EXTENDS Integers, Sequences, FiniteSets, TLC

\* ---------------------------------------------------------------- bounds
MaxProcs == 2      \* ffmpeg processes StreamManager spawns in one run
MaxTimers == 3     \* setTimeout calls StreamManager makes in one run
MaxChunks == 2     \* chunks one ffmpeg process writes to stdout
MaxSent == 2       \* chunks sent to one connection
MaxRecs == 3       \* ffmpeg processes RecordingManager spawns in one run
MaxNow == 1        \* seconds the wall clock advances in one run
MaxMsgs == 3       \* messages one client sends through the /go2rtc/ws proxy
MaxDown == 1       \* messages go2rtc sends through the /go2rtc/ws proxy

\* ------------------------------------------------------- program constants
\* CLEANUP_DELAY_MS = 30000, in ticks of 15 s
CLEANUP_DELAY_MS == 2

\* null, where a chunk [proc, n] is expected
Null == [proc |-> 0, n |-> 0]

\* ------------------------------------------------------------------ inputs
Conns == {"wsA", "wsB"}
ChannelIds == {3}
Qualities == {"low"}
Audios == {FALSE}
RecChannels == {5, 6}
ChannelNames == {<<"F", ".", " ", "D">>}
Usernames == {"admin", "viewer"}
Passwords == {"pw1", "pw2"}

\* the config.json files that differ in the DVR credentials only
Configs ==
    [host : {"dvr"}, port : {"554"}, username : Usernames, password : Passwords]

\* what a 'message' event of the client socket carries (Buffer | string)
ClientData == [kind : {"string", "buffer"}, bytes : {<<>>, <<1>>}]

\* what a 'message' event of the go2rtc socket carries
Go2rtcData == {[kind |-> "string", bytes |-> <<2>>]}

\* the config.json the server starts with
DefaultConfig ==
    [host |-> "dvr", port |-> "554", username |-> "admin", password |-> "pw1"]

VARIABLES
    streams,      \* StreamManager.streams: Map<string, ActiveStream>
    objs,         \* the ActiveStream objects ever created, by creation order
    procs,        \* the ChildProcess objects StreamManager spawned
    timers,       \* pending setTimeout callbacks of StreamManager, oldest first
    armCount,     \* number of setTimeout calls StreamManager made so far
    readyState,   \* WebSocket.readyState of every connection
    sent,         \* chunks passed to ws.send, per connection, in order
    emptyTicks,   \* per ActiveStream: ticks its clients set has been empty
    subscribed    \* <<ws, key>>: subscribe was called and unsubscribe not since

svars == <<streams, objs, procs, timers, armCount, readyState, sent, emptyTicks,
           subscribed>>

VARIABLES
    recordings,   \* RecordingManager.recordings: Map<number, ActiveRecording>
    recs,         \* the ActiveRecording objects ever created, by creation order
    rprocs,       \* the ChildProcess objects RecordingManager spawned
    now,          \* the wall clock (new Date()), in seconds
    result        \* what the last startRecording / stopRecording returned

rvars == <<recordings, recs, rprocs, now, result>>

VARIABLE
    halted        \* the server ran its SIGINT handler, which ends in process.exit(0)

VARIABLES
    xvr,          \* config.xvr of config.json: host, port, username, password
    response      \* the body of the last GET /api/config response

cvars == <<xvr, response>>

VARIABLES
    go2rtcReady,      \* go2rtcWs.readyState of one /go2rtc/ws connection
    go2rtcConnected,  \* let go2rtcConnected
    messageQueue,     \* const messageQueue
    go2rtcSent,       \* what was passed to go2rtcWs.send, in order
    wsReady,          \* ws.readyState of the client of that connection
    wsSent,           \* what was passed to ws.send, in order
    received          \* what the 'message' events of ws carried, in order

pvars == <<go2rtcReady, go2rtcConnected, messageQueue, go2rtcSent, wsReady,
           wsSent, received>>

vars == <<svars, rvars, halted, cvars, pvars>>

\* ------------------------------------------------------------- config
\* `rtsp://${username}:${password}@${host}:${port}/cam/realmonitor?channel=
\* ${channelId}&subtype=${subtype}`
rtspUrl(cfg, channelId, subtype) ==
    <<"rtsp://", cfg.username, ":", cfg.password, "@", cfg.host, ":", cfg.port,
      "/cam/realmonitor?channel=", channelId, "&subtype=", subtype>>

\* subtype 1 is the sub stream (low quality), 0 the main stream
subtypeOf(quality) == IF quality = "low" THEN 1 ELSE 0

\* the body GET /api/config answers with: the config, its password masked
safeConfig(cfg) == [xvr |-> [cfg EXCEPT !.password = "********"]]

NoResponse == [xvr |-> [host |-> "", port |-> "", username |-> "", password |-> ""]]

\* app.get('/api/config')
GetConfig ==
    /\ ~halted
    /\ response' = safeConfig(xvr)
    /\ UNCHANGED <<svars, rvars, halted, xvr, pvars>>

ConfigInit == xvr = DefaultConfig /\ response = NoResponse

\* ------------------------------------------------------- /go2rtc/ws proxy
\* the truth value JavaScript gives a message: the empty string is falsy, a
\* Buffer is an object and truthy whatever its length
Truthy(msg) == ~(msg.kind = "string" /\ msg.bytes = <<>>)

\* while (messageQueue.length > 0) { msg = shift(); if (msg) go2rtcWs.send(msg) }
RECURSIVE Flush(_, _)
Flush(queue, out) ==
    IF Len(queue) = 0 THEN out
    ELSE Flush(Tail(queue),
               IF Truthy(Head(queue)) THEN Append(out, Head(queue)) ELSE out)

\* ws.close() of the client where the handler finds it OPEN
CloseClientIfOpen == wsReady' = IF wsReady = "OPEN" THEN "CLOSING" ELSE wsReady

\* go2rtcWs.on('open')
Go2rtcOpen ==
    /\ ~halted
    /\ go2rtcReady = "CONNECTING"
    /\ go2rtcReady' = "OPEN"
    /\ go2rtcConnected' = TRUE
    /\ go2rtcSent' = Flush(messageQueue, go2rtcSent)
    /\ messageQueue' = <<>>
    /\ UNCHANGED <<wsReady, wsSent, received>>
    /\ UNCHANGED <<svars, rvars, halted, cvars>>

\* go2rtcWs.on('message')
Go2rtcMessage(data) ==
    /\ ~halted
    /\ go2rtcReady = "OPEN"
    /\ Len(wsSent) < MaxDown
    /\ wsSent' = IF wsReady = "OPEN" THEN Append(wsSent, data) ELSE wsSent
    /\ UNCHANGED <<go2rtcReady, go2rtcConnected, messageQueue, go2rtcSent,
                   wsReady, received>>
    /\ UNCHANGED <<svars, rvars, halted, cvars>>

\* go2rtcWs.on('close')
Go2rtcClose ==
    /\ ~halted
    /\ go2rtcReady # "CLOSED"
    /\ go2rtcReady' = "CLOSED"
    /\ CloseClientIfOpen
    /\ UNCHANGED <<go2rtcConnected, messageQueue, go2rtcSent, wsSent, received>>
    /\ UNCHANGED <<svars, rvars, halted, cvars>>

\* go2rtcWs.on('error'): the socket is CLOSING when ws emits it
Go2rtcError ==
    /\ ~halted
    /\ go2rtcReady \in {"CONNECTING", "OPEN"}
    /\ go2rtcReady' = "CLOSING"
    /\ CloseClientIfOpen
    /\ UNCHANGED <<go2rtcConnected, messageQueue, go2rtcSent, wsSent, received>>
    /\ UNCHANGED <<svars, rvars, halted, cvars>>

\* ws.on('message') of the proxied client
ClientMessage(data) ==
    /\ ~halted
    /\ wsReady # "CLOSED"
    /\ Len(received) < MaxMsgs
    /\ received' = Append(received, data)
    /\ IF go2rtcConnected /\ go2rtcReady = "OPEN"
       THEN go2rtcSent' = Append(go2rtcSent, data) /\ UNCHANGED messageQueue
       ELSE messageQueue' = Append(messageQueue, data) /\ UNCHANGED go2rtcSent
    /\ UNCHANGED <<go2rtcReady, go2rtcConnected, wsReady, wsSent>>
    /\ UNCHANGED <<svars, rvars, halted, cvars>>

\* ws.on('close') of the proxied client
ClientClose ==
    /\ ~halted
    /\ wsReady # "CLOSED"
    /\ wsReady' = "CLOSED"
    /\ go2rtcReady' = IF go2rtcReady \in {"OPEN", "CONNECTING"}
                      THEN "CLOSING" ELSE go2rtcReady
    /\ UNCHANGED <<go2rtcConnected, messageQueue, go2rtcSent, wsSent, received>>
    /\ UNCHANGED <<svars, rvars, halted, cvars>>

\* the state the connection handler leaves for a /go2rtc/ws request
ProxyInit ==
    /\ go2rtcReady = "CONNECTING"
    /\ go2rtcConnected = FALSE
    /\ messageQueue = <<>>
    /\ go2rtcSent = <<>>
    /\ wsReady = "OPEN"
    /\ wsSent = <<>>
    /\ received = <<>>

\* ------------------------------------------------------------ Map helpers
MapHas(m, k) == k \in DOMAIN m
MapSet(m, k, v) == [x \in (DOMAIN m) \cup {k} |-> IF x = k THEN v ELSE m[x]]
MapDelete(m, k) == [x \in (DOMAIN m) \ {k} |-> m[x]]
EmptyMap == [x \in {} |-> 0]

\* ------------------------------------------------------- StreamManager
\* `${channelId}-${quality}-${audio ? 'audio' : 'noaudio'}`
getStreamKey(channelId, quality, audio) ==
    <<channelId, quality, IF audio THEN "audio" ELSE "noaudio">>

\* ChildProcess.kill(signal): the call is recorded on the process
Kill(ps, p, sig) == [ps EXCEPT ![p].signals = Append(@, sig)]

\* A pending timer is [stream, key, remaining, handle]: stream and key are what
\* its callback closes over, remaining the ticks until it is due, and handle
\* is TRUE for the timer that stream.cleanupTimer refers to.

\* subscribe forgets the handle and leaves its timer pending
ClearTimeout_Keep(ts, sid) == ts

\* clearTimeout(stream.cleanupTimer) for the ActiveStream sid
ClearTimeout(ts, sid) == SelectSeq(ts, LAMBDA t : ~(t.stream = sid /\ t.handle))

\* stream.cleanupTimer = setTimeout(callback, CLEANUP_DELAY_MS): the handle the
\* field held before is overwritten, its timer stays pending
SetTimeout(ts, sid, key) ==
    Append([i \in DOMAIN ts |->
              IF ts[i].stream = sid THEN [ts[i] EXCEPT !.handle = FALSE] ELSE ts[i]],
           [stream |-> sid, key |-> key, remaining |-> CLEANUP_DELAY_MS,
            handle |-> TRUE])

\* the data handler keeps the first chunk it cached
RetainedFrame_KeepFirst(old, data) == IF old = [proc |-> 0, n |-> 0] THEN data ELSE old

\* the chunk createStream's data handler retains as stream.lastData
RetainedFrame(old, data) == data

\* subscribe sends nothing to the joining connection
InitialFrame_None(last, state) == <<>>

\* what subscribe sends at once to the joining connection
InitialFrame(last, state) ==
    IF last # Null /\ state = "OPEN" THEN <<last>> ELSE <<>>

\* the test the cleanup timer's callback makes before it kills
IdleAtTimeout(clients) == clients = {}

\* the cleanup callback kills the process and leaves the registry entry
CleanupRegistry_Keep(m, key) == m

\* the registry after the cleanup timer's callback found no clients
CleanupRegistry(m, key) == MapDelete(m, key)

\* spawn('ffmpeg', args): the process runs, or could not be started
SpawnOutcomes == {"running", "failed"}

\* a new session starts with the lastData of the last session of its key
CreatedLastData_Inherit(os, key) ==
    LET same == {s \in DOMAIN os :
                    getStreamKey(os[s].channelId, os[s].quality, os[s].audio) = key}
    IN  IF same = {} THEN Null
        ELSE os[CHOOSE s \in same : \A s2 \in same : s2 <= s].lastData

\* the lastData createStream gives a new ActiveStream: null
CreatedLastData(os, key) == Null

\* createStream(channelId, quality, audio), then the rest of subscribe for ws
CreateAndSubscribe(ws, channelId, quality, audio, outcome) ==
    LET key == getStreamKey(channelId, quality, audio)
        pid == Len(procs) + 1
        sid == Len(objs) + 1
    IN  /\ Len(procs) < MaxProcs
        /\ procs' = Append(procs, [state |-> outcome, signals |-> <<>>,
                                   key |-> key, stream |-> sid, produced |-> 0,
                                   input |-> rtspUrl(xvr, channelId,
                                                     subtypeOf(quality))])
        /\ objs' = Append(objs, [ffmpeg |-> pid, clients |-> {ws},
                                 channelId |-> channelId, quality |-> quality,
                                 audio |-> audio, cleanupTimer |-> FALSE,
                                 lastData |-> CreatedLastData(objs, key)])
        /\ emptyTicks' = Append(emptyTicks, 0)
        /\ streams' = MapSet(streams, key, sid)
        /\ sent' = [sent EXCEPT ![ws] = @ \o InitialFrame(CreatedLastData(objs, key),
                                                          readyState[ws])]
        /\ UNCHANGED <<timers, armCount, readyState>>

\* subscribe(ws, ...) when the key is registered
JoinExisting(ws, channelId, quality, audio) ==
    LET key == getStreamKey(channelId, quality, audio)
        sid == streams[key]
        first == InitialFrame(objs[sid].lastData, readyState[ws])
    IN  /\ Len(sent[ws]) + Len(first) <= MaxSent
        /\ timers' = IF objs[sid].cleanupTimer
                     THEN ClearTimeout(timers, sid) ELSE timers
        /\ objs' = [objs EXCEPT ![sid].cleanupTimer = FALSE,
                                ![sid].clients = @ \cup {ws}]
        /\ emptyTicks' = [emptyTicks EXCEPT ![sid] = 0]
        /\ sent' = [sent EXCEPT ![ws] = @ \o first]
        /\ UNCHANGED <<streams, procs, armCount, readyState>>

Subscribe(ws, channelId, quality, audio, outcome) ==
    /\ ~halted
    /\ UNCHANGED <<rvars, halted, cvars, pvars>>
    /\ subscribed' = subscribed \cup {<<ws, getStreamKey(channelId, quality, audio)>>}
    /\ IF MapHas(streams, getStreamKey(channelId, quality, audio))
       THEN JoinExisting(ws, channelId, quality, audio)
       ELSE CreateAndSubscribe(ws, channelId, quality, audio, outcome)

\* unsubscribe takes the connection out of the sessions that left the registry
UnsubscribeUnknown_Detach(ws) ==
    /\ objs' = [s \in DOMAIN objs |-> [objs[s] EXCEPT !.clients = @ \ {ws}]]
    /\ UNCHANGED <<streams, procs, timers, armCount, readyState, sent, emptyTicks>>

\* unsubscribe when this.streams.get(key) is undefined: it returns at once
UnsubscribeUnknown(ws) ==
    UNCHANGED <<streams, objs, procs, timers, armCount, readyState, sent, emptyTicks>>

Unsubscribe(ws, channelId, quality, audio) ==
    LET key == getStreamKey(channelId, quality, audio) IN
    /\ ~halted
    /\ UNCHANGED <<rvars, halted, cvars, pvars>>
    /\ subscribed' = subscribed \ {<<ws, key>>}
    /\ IF ~MapHas(streams, key)
       THEN UnsubscribeUnknown(ws)
       ELSE LET sid == streams[key]
                left == objs[sid].clients \ {ws}
            IN  IF left = {}
                THEN /\ armCount < MaxTimers
                     /\ armCount' = armCount + 1
                     /\ timers' = SetTimeout(timers, sid, key)
                     /\ objs' = [objs EXCEPT ![sid].clients = left,
                                             ![sid].cleanupTimer = TRUE]
                     /\ UNCHANGED <<streams, procs, readyState, sent, emptyTicks>>
                ELSE /\ objs' = [objs EXCEPT ![sid].clients = left]
                     /\ UNCHANGED <<streams, procs, timers, armCount, readyState,
                                    sent, emptyTicks>>

\* the callback unsubscribe passed to setTimeout, run when the timer is due;
\* timers of one delay come due, and run, in the order they were armed
CleanupTimerFires ==
    /\ ~halted
    /\ UNCHANGED <<rvars, halted, cvars, pvars>>
    /\ timers # <<>>
    /\ Head(timers).remaining = 0
    /\ timers' = Tail(timers)
    /\ IF IdleAtTimeout(objs[Head(timers).stream].clients)
       THEN /\ procs' = Kill(procs, objs[Head(timers).stream].ffmpeg, "SIGTERM")
            /\ streams' = CleanupRegistry(streams, Head(timers).key)
       ELSE UNCHANGED <<procs, streams>>
    /\ UNCHANGED <<objs, armCount, readyState, sent, emptyTicks, subscribed>>

\* the data handler sends to every client, whatever its readyState
Recipients_All(clients) == clients

\* the clients the data handler calls ws.send for
Recipients(clients) == {ws \in clients : readyState[ws] = "OPEN"}

\* ffmpeg.stdout.on('data')
OnData(p) ==
    LET sid == procs[p].stream
        data == [proc |-> p, n |-> procs[p].produced + 1]
        open == Recipients(objs[sid].clients)
    IN  /\ ~halted
        /\ UNCHANGED <<rvars, halted, cvars, pvars>>
        /\ procs[p].state = "running"
        /\ procs[p].produced < MaxChunks
        /\ \A ws \in open : Len(sent[ws]) < MaxSent
        /\ procs' = [procs EXCEPT ![p].produced = @ + 1]
        /\ objs' = [objs EXCEPT ![sid].lastData = RetainedFrame(@, data)]
        /\ sent' = [ws \in Conns |->
                      IF ws \in open THEN Append(sent[ws], data) ELSE sent[ws]]
        /\ UNCHANGED <<streams, timers, armCount, readyState, emptyTicks, subscribed>>

\* the exit handlers leave the registry as it is
OnExitRegistry_Keep(m, key) == m

\* the registry after the 'close' or 'error' handler of a process created
\* for the key: this.streams.delete(key)
OnExitRegistry(m, key) == MapDelete(m, key)

\* ffmpeg.on('close'): the process ended
OnClose(p) ==
    /\ ~halted
    /\ UNCHANGED <<rvars, halted, cvars, pvars>>
    /\ procs[p].state \in {"running", "errored"}
    /\ procs' = [procs EXCEPT ![p].state = "exited"]
    /\ streams' = OnExitRegistry(streams, procs[p].key)
    /\ UNCHANGED <<objs, timers, armCount, readyState, sent, emptyTicks, subscribed>>

\* ffmpeg.on('error'): the process could not be spawned
OnError(p) ==
    /\ ~halted
    /\ UNCHANGED <<rvars, halted, cvars, pvars>>
    /\ procs[p].state = "failed"
    /\ procs' = [procs EXCEPT ![p].state = "errored"]
    /\ streams' = OnExitRegistry(streams, procs[p].key)
    /\ UNCHANGED <<objs, timers, armCount, readyState, sent, emptyTicks, subscribed>>

RECURSIVE KillAll(_, _)
KillAll(ps, pids) ==
    IF pids = {} THEN ps
    ELSE LET p == CHOOSE x \in pids : TRUE
         IN  KillAll(Kill(ps, p, "SIGTERM"), pids \ {p})

Shutdown ==
    LET regs == {streams[k] : k \in DOMAIN streams}
        held == {s \in regs : objs[s].cleanupTimer}
    IN  /\ ~halted
        /\ halted' = TRUE
        /\ UNCHANGED <<rvars, cvars, pvars>>
        /\ timers' = SelectSeq(timers, LAMBDA t : ~(t.stream \in held /\ t.handle))
        /\ procs' = KillAll(procs, {objs[s].ffmpeg : s \in regs})
        /\ streams' = EmptyMap
        /\ UNCHANGED <<objs, armCount, readyState, sent, emptyTicks, subscribed>>

\* getActiveStreams()
getActiveStreams ==
    {[channelId |-> objs[streams[k]].channelId,
      quality |-> objs[streams[k]].quality,
      clients |-> Cardinality(objs[streams[k]].clients)] : k \in DOMAIN streams}

\* the connection's transport closes
ConnCloses(ws) ==
    /\ ~halted
    /\ UNCHANGED <<rvars, halted, cvars, pvars>>
    /\ readyState[ws] = "OPEN"
    /\ readyState' = [readyState EXCEPT ![ws] = "CLOSED"]
    /\ UNCHANGED <<streams, objs, procs, timers, armCount, sent, emptyTicks, subscribed>>

\* 15 s pass; a due timer runs before the clock moves on
Tick ==
    /\ ~halted
    /\ UNCHANGED <<rvars, halted, cvars, pvars>>
    /\ timers # <<>>
    /\ \A i \in DOMAIN timers : timers[i].remaining > 0
    /\ timers' = [i \in DOMAIN timers |-> [timers[i] EXCEPT !.remaining = @ - 1]]
    /\ emptyTicks' = [s \in DOMAIN emptyTicks |->
                        IF objs[s].clients = {} /\ emptyTicks[s] < CLEANUP_DELAY_MS
                        THEN emptyTicks[s] + 1 ELSE emptyTicks[s]]
    /\ UNCHANGED <<streams, objs, procs, armCount, readyState, sent, subscribed>>

StreamInit ==
    /\ streams = EmptyMap
    /\ objs = <<>>
    /\ procs = <<>>
    /\ timers = <<>>
    /\ armCount = 0
    /\ readyState = [ws \in Conns |-> "OPEN"]
    /\ sent = [ws \in Conns |-> <<>>]
    /\ emptyTicks = <<>>
    /\ subscribed = {}

\* ------------------------------------------------------ RecordingManager
Alnum == {"a", "b", "c", "d", "e", "f", "g", "h", "i", "j", "k", "l", "m",
          "n", "o", "p", "q", "r", "s", "t", "u", "v", "w", "x", "y", "z",
          "A", "B", "C", "D", "E", "F", "G", "H", "I", "J", "K", "L", "M",
          "N", "O", "P", "Q", "R", "S", "T", "U", "V", "W", "X", "Y", "Z",
          "0", "1", "2", "3", "4", "5", "6", "7", "8", "9"}

\* channelName.replace(/[^a-zA-Z0-9]/g, '-')
safeName(channelName) ==
    [i \in 1..Len(channelName) |->
        IF channelName[i] \in Alnum THEN channelName[i] ELSE "-"]

\* new Date().toISOString().replace(/[:.]/g, '-').slice(0, 19): whole seconds
timestamp(t) == ToString(t)

\* path.join(RECORDINGS_DIR, `${safeName}-${timestamp}.mp4`)
filepathOf(channelName, t) ==
    <<"recordings", "/">> \o safeName(channelName) \o <<"-", timestamp(t), ".mp4">>

\* this.recordings.has(channelId)
isRecording(channelId) == MapHas(recordings, channelId)

\* getActiveRecordings()
getActiveRecordings ==
    {[channelId |-> recs[recordings[c]].channelId,
      channelName |-> recs[recordings[c]].channelName,
      startTime |-> recs[recordings[c]].startTime,
      filepath |-> recs[recordings[c]].filepath] : c \in DOMAIN recordings}

NoPath == <<>>

\* startRecording does not look at the registry
AlreadyRecording_Never(m, channelId) == FALSE

\* the guard that opens startRecording
AlreadyRecording(m, channelId) == MapHas(m, channelId)

StartRecording(channelId, channelName, outcome) ==
    /\ ~halted
    /\ UNCHANGED <<svars, halted, cvars, pvars>>
    /\ IF AlreadyRecording(recordings, channelId)
       THEN /\ result' = [success |-> FALSE,
                          message |-> "Already recording this channel",
                          filepath |-> NoPath]
            /\ UNCHANGED <<recordings, recs, rprocs, now>>
       ELSE LET filepath == filepathOf(channelName, now)
                pid == Len(rprocs) + 1
                rid == Len(recs) + 1
            IN  /\ Len(rprocs) < MaxRecs
                /\ rprocs' = Append(rprocs, [state |-> outcome, signals |-> <<>>,
                                             channelId |-> channelId,
                                             input |-> rtspUrl(xvr, channelId, 0)])
                /\ recs' = Append(recs, [ffmpeg |-> pid, channelId |-> channelId,
                                         channelName |-> channelName,
                                         filepath |-> filepath, startTime |-> now])
                /\ recordings' = MapSet(recordings, channelId, rid)
                /\ result' = [success |-> TRUE, message |-> "Recording started",
                              filepath |-> filepath]
                /\ UNCHANGED now

\* stopRecording reports success for a channel that is not recording
NotRecordingResult_Success ==
    [success |-> TRUE, message |-> "Recording stopped", filepath |-> NoPath]

\* what stopRecording returns when the registry has no session for the channel
NotRecordingResult ==
    [success |-> FALSE, message |-> "Not recording this channel", filepath |-> NoPath]

StopRecording(channelId) ==
    /\ ~halted
    /\ UNCHANGED <<svars, halted, cvars, pvars>>
    /\ IF ~MapHas(recordings, channelId)
       THEN /\ result' = NotRecordingResult
            /\ UNCHANGED <<recordings, recs, rprocs, now>>
       ELSE LET recording == recs[recordings[channelId]]
            IN  /\ rprocs' = Kill(rprocs, recording.ffmpeg, "SIGINT")
                /\ recordings' = MapDelete(recordings, channelId)
                /\ result' = [success |-> TRUE, message |-> "Recording stopped",
                              filepath |-> recording.filepath]
                /\ UNCHANGED <<recs, now>>

\* stopAll clears the registry and signals nothing
InterruptAll_None(ps, pids) == ps

\* stopAll's loop: recording.ffmpeg.kill('SIGINT') for every registered recording
RECURSIVE InterruptAll(_, _)
InterruptAll(ps, pids) ==
    IF pids = {} THEN ps
    ELSE LET p == CHOOSE x \in pids : TRUE
         IN  InterruptAll(Kill(ps, p, "SIGINT"), pids \ {p})

StopAll ==
    /\ ~halted
    /\ halted' = TRUE
    /\ UNCHANGED <<svars, cvars, pvars>>
    /\ rprocs' = InterruptAll(rprocs, {recs[recordings[c]].ffmpeg : c \in DOMAIN recordings})
    /\ recordings' = EmptyMap
    /\ UNCHANGED <<recs, now, result>>

\* ffmpeg.on('close') of a recording process
RecOnClose(p) ==
    /\ ~halted
    /\ UNCHANGED <<svars, halted, cvars, pvars>>
    /\ rprocs[p].state \in {"running", "errored"}
    /\ rprocs' = [rprocs EXCEPT ![p].state = "exited"]
    /\ recordings' = MapDelete(recordings, rprocs[p].channelId)
    /\ UNCHANGED <<recs, now, result>>

\* ffmpeg.on('error') of a recording process
RecOnError(p) ==
    /\ ~halted
    /\ UNCHANGED <<svars, halted, cvars, pvars>>
    /\ rprocs[p].state = "failed"
    /\ rprocs' = [rprocs EXCEPT ![p].state = "errored"]
    /\ recordings' = MapDelete(recordings, rprocs[p].channelId)
    /\ UNCHANGED <<recs, now, result>>

\* one second passes
RecTick ==
    /\ ~halted
    /\ UNCHANGED <<svars, halted, cvars, pvars>>
    /\ now < MaxNow
    /\ now' = now + 1
    /\ UNCHANGED <<recordings, recs, rprocs, result>>

RecInit ==
    /\ recordings = EmptyMap
    /\ recs = <<>>
    /\ rprocs = <<>>
    /\ now = 0
    /\ result = [success |-> TRUE, message |-> "", filepath |-> NoPath]

\* ------------------------------------------------------- specifications
Init == StreamInit /\ RecInit /\ ConfigInit /\ ProxyInit /\ halted = FALSE

\* StreamManager with an ffmpeg that starts: sessions, processes, cleanup timers
Next ==
    \/ \E ws \in Conns, c \in ChannelIds, q \in Qualities, a \in Audios :
          Subscribe(ws, c, q, a, "running")
    \/ \E ws \in Conns, c \in ChannelIds, q \in Qualities, a \in Audios :
          Unsubscribe(ws, c, q, a)
    \/ CleanupTimerFires
    \/ \E p \in DOMAIN procs : OnClose(p)
    \/ Tick
    \/ Shutdown

Spec == Init /\ [][Next]_vars

\* time passes and node runs the callback of a timer that is due
LiveSpec == Spec /\ WF_vars(Tick) /\ WF_vars(CleanupTimerFires)

\* StreamManager: chunks from one running ffmpeg to the connections, within
\* one grace period
FlowNext ==
    \/ \E ws \in Conns, c \in ChannelIds, q \in Qualities, a \in Audios :
          Subscribe(ws, c, q, a, "running")
    \/ \E ws \in Conns, c \in ChannelIds, q \in Qualities, a \in Audios :
          Unsubscribe(ws, c, q, a)
    \/ \E p \in DOMAIN procs : OnData(p)
    \/ \E ws \in Conns : ConnCloses(ws)

FlowSpec == Init /\ [][FlowNext]_vars

\* RecordingManager with an ffmpeg that starts
RecNext ==
    \/ \E c \in RecChannels, nm \in ChannelNames : StartRecording(c, nm, "running")
    \/ \E c \in RecChannels : StopRecording(c)
    \/ \E p \in DOMAIN rprocs : RecOnClose(p)
    \/ RecTick
    \/ StopAll

RecSpec == Init /\ [][RecNext]_vars

\* both managers with an ffmpeg that may fail to start: spawn returns a
\* ChildProcess either way, and a failed one emits 'error', then 'close'
SpawnNext ==
    \/ \E ws \in Conns, c \in ChannelIds, q \in Qualities, a \in Audios,
          o \in SpawnOutcomes : Subscribe(ws, c, q, a, o)
    \/ \E p \in DOMAIN procs : OnError(p)
    \/ \E p \in DOMAIN procs : OnClose(p)
    \/ \E c \in RecChannels, nm \in ChannelNames, o \in SpawnOutcomes :
          StartRecording(c, nm, o)
    \/ \E p \in DOMAIN rprocs : RecOnError(p)
    \/ \E p \in DOMAIN rprocs : RecOnClose(p)

SpawnSpec == Init /\ [][SpawnNext]_vars

\* StreamManager while connections join: an ffmpeg that may fail to start,
\* writes chunks and exits
ExitNext ==
    \/ \E ws \in Conns, c \in ChannelIds, q \in Qualities, a \in Audios,
          o \in SpawnOutcomes : Subscribe(ws, c, q, a, o)
    \/ \E p \in DOMAIN procs : OnData(p)
    \/ \E p \in DOMAIN procs : OnError(p)
    \/ \E p \in DOMAIN procs : OnClose(p)

ExitSpec == Init /\ [][ExitNext]_vars

\* the server started with any of the credentials; callers read the config,
\* open streams, start and stop recordings
CredInit ==
    /\ StreamInit /\ RecInit /\ ProxyInit /\ halted = FALSE
    /\ xvr \in Configs
    /\ response = NoResponse

CredNext ==
    \/ GetConfig
    \/ \E ws \in Conns, c \in ChannelIds, q \in Qualities, a \in Audios :
          Subscribe(ws, c, q, a, "running")
    \/ \E c \in RecChannels, nm \in ChannelNames : StartRecording(c, nm, "running")
    \/ \E c \in RecChannels : StopRecording(c)

CredSpec == CredInit /\ [][CredNext]_vars

\* one /go2rtc/ws connection: the client, the go2rtc socket and the queue
\* between them
ProxyNext ==
    \/ Go2rtcOpen
    \/ \E data \in Go2rtcData : Go2rtcMessage(data)
    \/ Go2rtcClose
    \/ Go2rtcError
    \/ \E data \in ClientData : ClientMessage(data)
    \/ ClientClose

ProxySpec == Init /\ [][ProxyNext]_vars

\* ----------------------------------------------------------------- claims
\* spawned and not yet exited
Live(ps, p) == ps[p].state = "running"

\* running, and kill was never called on it
Unsignalled(ps, p) == ps[p].state = "running" /\ ps[p].signals = <<>>

\* the sessions of the registry that own the process p
StreamOwners(p) == {k \in DOMAIN streams : objs[streams[k]].ffmpeg = p}
RecOwners(p) == {c \in DOMAIN recordings : recs[recordings[c]].ffmpeg = p}

\* C1: for every key, at most one ffmpeg process that StreamManager spawned for
\* the key is live (spawned and not yet exited) at any instant.
C1_OneLiveProcessPerKey ==
    \A p, q \in DOMAIN procs :
        (procs[p].key = procs[q].key /\ Live(procs, p) /\ Live(procs, q)) => p = q

\* C2: for every channel, at most one recording process started for it is
\* running without having been sent the stop signal.
C2_OneActiveRecordingPerChannel ==
    \A p, q \in DOMAIN rprocs :
        (rprocs[p].channelId = rprocs[q].channelId
            /\ Unsignalled(rprocs, p) /\ Unsignalled(rprocs, q)) => p = q

\* C3: every process of either manager that is running and was never sent a
\* signal is owned by exactly one session of that manager's registry.
C3_RunningProcessHasOwner ==
    /\ \A p \in DOMAIN procs :
          Unsignalled(procs, p) => Cardinality(StreamOwners(p)) = 1
    /\ \A p \in DOMAIN rprocs :
          Unsignalled(rprocs, p) => Cardinality(RecOwners(p)) = 1

\* the key under which the ActiveStream sid was registered
KeyOf(sid) == getStreamKey(objs[sid].channelId, objs[sid].quality, objs[sid].audio)

\* the ActiveStream sid is the registry's entry for its key
Registered(sid) == MapHas(streams, KeyOf(sid)) /\ streams[KeyOf(sid)] = sid

\* the pending timers whose callback closes over the ActiveStream sid
PendingFor(sid) == {i \in DOMAIN timers : timers[i].stream = sid}

\* the step is the cleanup callback killing a process
TeardownKills == CleanupTimerFires /\ procs' # procs

\* C4: the cleanup callback kills a session's process only when the session's
\* clients set has been empty, without a break, for the whole grace period.
C4_KillOnlyAfterFullGrace ==
    [][TeardownKills => emptyTicks[Head(timers).stream] >= CLEANUP_DELAY_MS]_vars

Emptied(sid) ==
    /\ sid \in DOMAIN objs
    /\ Registered(sid)
    /\ objs[sid].clients = {}
    /\ objs[sid].cleanupTimer

\* a subscribe for the key of sid came after the unsubscribe that emptied it
SubscribedSince(sid) ==
    \/ objs[sid].clients # {}
    \/ \E s2 \in DOMAIN objs : s2 > sid /\ KeyOf(s2) = KeyOf(sid)

\* kill was called on the process of sid and no session is listed for its key
TornDown(sid) ==
    /\ procs[objs[sid].ffmpeg].signals # <<>>
    /\ ~\E e \in getActiveStreams :
           e.channelId = objs[sid].channelId /\ e.quality = objs[sid].quality
    /\ ~MapHas(streams, KeyOf(sid))

\* C6: once an unsubscribe has emptied a registered session, then unless a
\* subscribe for the key follows (or the server exits), eventually the
\* session's process has been sent the kill signal and getActiveStreams lists
\* no session for the key.
C6_IdleSessionIsTornDown ==
    \A sid \in 1..MaxProcs :
        Emptied(sid) ~>
            (sid \in DOMAIN objs /\ (SubscribedSince(sid) \/ TornDown(sid) \/ halted))

\* the cleanup callback tore down a session that stayed empty for the grace period
C6_Witness ==
    /\ ~halted
    /\ Len(objs) = 1
    /\ objs[1].clients = {}
    /\ emptyTicks[1] = CLEANUP_DELAY_MS
    /\ TornDown(1)
    /\ procs[1].state = "running"

\* C7: a session that has a client is not destroyed by teardown: the cleanup
\* callback neither kills its process nor removes it from the registry, and it
\* leaves the registry only by the exit of its own process or by shutdown().
C7_NoTeardownWithSubscribers ==
    [][\A sid \in DOMAIN objs :
          (Registered(sid) /\ objs[sid].clients # {}) =>
             /\ CleanupTimerFires =>
                   /\ Registered(sid)'
                   /\ procs'[objs[sid].ffmpeg] = procs[objs[sid].ffmpeg]
             /\ ~Registered(sid)' => (OnClose(objs[sid].ffmpeg) \/ Shutdown)
      ]_vars

\* the chunk number n of the process p
Chunk(p, n) == [proc |-> p, n |-> n]

\* what a step passed to ws.send for the connection ws
NewlySent(ws) == SubSeq(sent'[ws], Len(sent[ws]) + 1, Len(sent'[ws]))

\* C8: a connection with an open transport that subscribes to a session whose
\* lastData is set is sent that chunk in the subscribe call itself, ahead of
\* every chunk produced later; one that subscribes to a session without
\* lastData is sent nothing by the call, and the first chunk the process
\* then writes is the next thing it is sent.
C8_LateJoinerGetsCachedFrame ==
    [][/\ \A ws \in Conns, c \in ChannelIds, q \in Qualities, a \in Audios :
            LET key == getStreamKey(c, q, a)
                cached == IF MapHas(streams, key)
                          THEN objs[streams[key]].lastData ELSE Null
            IN  Subscribe(ws, c, q, a, "running") =>
                   /\ sent'[ws] = IF cached # Null /\ readyState[ws] = "OPEN"
                                  THEN Append(sent[ws], cached) ELSE sent[ws]
                   /\ \A other \in Conns \ {ws} : sent'[other] = sent[other]
       /\ \A p \in DOMAIN procs :
            OnData(p) =>
               \A ws \in objs[procs[p].stream].clients :
                  readyState[ws] = "OPEN" =>
                     NewlySent(ws) = <<Chunk(p, procs[p].produced + 1)>>
      ]_vars

\* wsA created the session and was sent both chunks as ffmpeg wrote them; wsB
\* joined after the second chunk and was sent that chunk alone
C8_Witness ==
    /\ Len(procs) = 1 /\ procs[1].produced = 2
    /\ sent["wsA"] = <<Chunk(1, 1), Chunk(1, 2)>>
    /\ sent["wsB"] = <<Chunk(1, 2)>>
    /\ readyState["wsB"] = "OPEN"
    /\ "wsB" \in objs[1].clients

\* the chunks sent to ws are in the order their process wrote them
InProductionOrder(ws) ==
    \A i, j \in DOMAIN sent[ws] :
        (i < j /\ sent[ws][i].proc = sent[ws][j].proc) => sent[ws][i].n <= sent[ws][j].n

\* C9: the chunks sent to a connection are in the order the session's process
\* wrote them, and a chunk is sent only while it is the session's lastData:
\* nothing older is kept to be sent later.
C9_ChunksInProductionOrder ==
    [][\A ws \in Conns :
          /\ InProductionOrder(ws)'
          /\ \A i \in DOMAIN NewlySent(ws) :
                LET d == NewlySent(ws)[i]
                IN  objs'[procs'[d.proc].stream].lastData = d
      ]_vars

\* a connection was sent two chunks of one process, in order
C9_Witness ==
    \E ws \in Conns :
        /\ sent[ws] = <<Chunk(1, 1), Chunk(1, 2)>>
        /\ objs[1].lastData = Chunk(1, 2)

\* C10: startRecording for a channel that has a registered session returns
\* success = false with "Already recording this channel", spawns no process
\* and leaves the registry and the registered session as they were.
C10_SecondStartIsRejected ==
    [][\A c \in RecChannels, nm \in ChannelNames :
          (MapHas(recordings, c) /\ StartRecording(c, nm, "running")) =>
             /\ result' = [success |-> FALSE,
                           message |-> "Already recording this channel",
                           filepath |-> NoPath]
             /\ Len(rprocs') = Len(rprocs)
             /\ rprocs' = rprocs
             /\ recordings' = recordings
             /\ recs'[recordings[c]] = recs[recordings[c]]
      ]_vars

\* a second startRecording for channel 5 was rejected, its session still stands
C10_Witness ==
    /\ ~result.success
    /\ result.message = "Already recording this channel"
    /\ isRecording(5)
    /\ Len(rprocs) = 1
    /\ Unsignalled(rprocs, recs[recordings[5]].ffmpeg)

\* C11: stopRecording for a channel that has no registered session returns
\* success = false with "Not recording this channel", sends no signal to any
\* process and leaves the registry and every session as they were.
C11_StopWhenAbsentIsRejected ==
    [][\A c \in RecChannels :
          (~MapHas(recordings, c) /\ StopRecording(c)) =>
             /\ ~result'.success
             /\ result'.message = "Not recording this channel"
             /\ result'.filepath = NoPath
             /\ rprocs' = rprocs
             /\ recordings' = recordings
             /\ recs' = recs
      ]_vars

\* stopRecording was rejected for channel 5 while channel 6 was recording
\* and its process was left unsignalled
C11_Witness ==
    /\ ~result.success
    /\ result.message = "Not recording this channel"
    /\ ~isRecording(5)
    /\ isRecording(6)
    /\ Unsignalled(rprocs, recs[recordings[6]].ffmpeg)

\* C12: when ffmpeg cannot be spawned, startRecording returns success = false
\* and the channel is not recording on return, and a subscribe that had to
\* spawn leaves no session registered for the key.
C12_SpawnFailureRegistersNothing ==
    [][/\ \A c \in RecChannels, nm \in ChannelNames :
            (~MapHas(recordings, c) /\ StartRecording(c, nm, "failed")) =>
               /\ ~result'.success
               /\ ~MapHas(recordings', c)
       /\ \A ws \in Conns, c \in ChannelIds, q \in Qualities, a \in Audios :
            (/\ ~MapHas(streams, getStreamKey(c, q, a))
             /\ Subscribe(ws, c, q, a, "failed"))
            => ~MapHas(streams', getStreamKey(c, q, a))
      ]_vars

\* the ActiveRecording objects created for the channel c
RecsOf(c) == {r \in DOMAIN recs : recs[r].channelId = c}

\* the ActiveRecording the last successful startRecording(c) created
LastRecOf(c) == CHOOSE r \in RecsOf(c) : \A r2 \in RecsOf(c) : r2 <= r

\* C13: startRecording for a channel without a session returns success with
\* a filepath, and then the channel is recording and getActiveRecordings
\* lists it with that filepath; if the process it spawned has not exited, the
\* next stopRecording for the channel sends that process SIGINT and nothing
\* else, returns success with the same filepath, and the channel is not
\* recording on return.
C13_StartStopRoundTrip ==
    [][/\ \A c \in RecChannels, nm \in ChannelNames :
            (~MapHas(recordings, c) /\ StartRecording(c, nm, "running")) =>
               /\ result'.success
               /\ result'.filepath = filepathOf(nm, now)
               /\ result'.filepath # NoPath
               /\ MapHas(recordings', c)
               /\ \E e \in getActiveRecordings' :
                      e.channelId = c /\ e.filepath = result'.filepath
       /\ \A c \in RecChannels :
            (/\ RecsOf(c) # {}
             /\ Unsignalled(rprocs, recs[LastRecOf(c)].ffmpeg)
             /\ StopRecording(c))
            => LET p == recs[LastRecOf(c)].ffmpeg IN
               /\ rprocs'[p].signals = <<"SIGINT">>
               /\ result'.success
               /\ result'.filepath = recs[LastRecOf(c)].filepath
               /\ ~MapHas(recordings', c)
      ]_vars

\* C14: a channel is absent or recording; startRecording moves absent to
\* recording and is rejected in recording, stopRecording moves recording to
\* absent and is rejected in absent, and a channel otherwise changes state only
\* from recording to absent, when the process of its recording exits or
\* stopAll runs; nothing done to another channel changes it.
C14_TwoStatesPerChannel ==
    [][\A c \in RecChannels :
          /\ \A nm \in ChannelNames :
                StartRecording(c, nm, "running") =>
                   /\ isRecording(c)'
                   /\ result'.success = ~isRecording(c)
          /\ StopRecording(c) =>
                /\ ~isRecording(c)'
                /\ result'.success = isRecording(c)
          /\ (~isRecording(c) /\ isRecording(c)') =>
                \E nm \in ChannelNames : StartRecording(c, nm, "running")
          /\ (isRecording(c) /\ ~isRecording(c)') =>
                \/ StopRecording(c)
                \/ StopAll
                \/ RecOnClose(recs[recordings[c]].ffmpeg)
      ]_vars

\* the connections that subscribed to the key and have not unsubscribed since
SubscribersOf(key) == {ws \in Conns : <<ws, key>> \in subscribed}

\* the subscriber count getActiveStreams reports for the key: the clients
\* field of its entry, 0 when it lists no session for the key
ReportedClients(key) ==
    IF MapHas(streams, key) THEN Cardinality(objs[streams[key]].clients) ELSE 0

\* no ffmpeg process of StreamManager has exited
NoExitYet == \A p \in DOMAIN procs : procs[p].state = "running"

\* C15: a subscribe for a registered key spawns no process and adds the
\* connection to the registered session; and as long as no process has
\* exited, the subscriber count getActiveStreams reports for a key is the
\* number of distinct connections subscribed to it and not yet unsubscribed.
C15_SubscriberCount ==
    [][\A c \in ChannelIds, q \in Qualities, a \in Audios :
          LET key == getStreamKey(c, q, a) IN
          /\ \A ws \in Conns :
                (MapHas(streams, key) /\ Subscribe(ws, c, q, a, "running")) =>
                   /\ procs' = procs
                   /\ streams' = streams
                   /\ objs'[streams[key]].clients =
                         objs[streams[key]].clients \cup {ws}
          /\ (NoExitYet' /\ ~halted') =>
                ReportedClients(key)' = Cardinality(SubscribersOf(key))'
      ]_vars

\* C16: a session whose clients set is not empty has no cleanup timer pending.
C16_NoTimerWhileSubscribed ==
    \A sid \in DOMAIN objs : objs[sid].clients # {} => PendingFor(sid) = {}

\* C17: at most one cleanup timer is pending for a session at any time.
C17_OneTimerPerSession ==
    \A sid \in DOMAIN objs : Cardinality(PendingFor(sid)) <= 1

\* C18: unsubscribe for a key that has no registered session changes nothing:
\* the registry, every session's clients and lastData, the pending timers and
\* the processes are as they were.
C18_UnsubscribeUnknownKeyIsNoOp ==
    [][\A ws \in Conns, c \in ChannelIds, q \in Qualities, a \in Audios :
          (~MapHas(streams, getStreamKey(c, q, a)) /\ Unsubscribe(ws, c, q, a)) =>
             /\ streams' = streams
             /\ objs' = objs
             /\ timers' = timers
             /\ armCount' = armCount
             /\ procs' = procs
             /\ sent' = sent
      ]_vars

\* the session of wsA left the registry when its process exited with a timer
\* of an earlier unsubscribe pending; wsA then unsubscribed, and the session
\* object, the timer and the registry are as they were
C18_Witness ==
    /\ Len(objs) = 1 /\ streams = EmptyMap
    /\ procs[1].state = "exited"
    /\ "wsA" \in objs[1].clients
    /\ <<"wsA", KeyOf(1)>> \notin subscribed
    /\ Len(timers) = 1

\* C19: when ffmpeg writes a chunk, the session's lastData becomes that chunk
\* and the chunk is sent to exactly the clients of the session whose
\* connection is open; a client whose connection is not open is sent nothing
\* and stays in the clients set, and in the reported count, until unsubscribe
\* is called for it.
C19_ChunkGoesToOpenClients ==
    [][/\ \A p \in DOMAIN procs :
            OnData(p) =>
               LET sid == procs[p].stream
                   data == Chunk(p, procs[p].produced + 1)
               IN  /\ objs'[sid].lastData = data
                   /\ \A ws \in Conns :
                         sent'[ws] =
                            IF ws \in objs[sid].clients /\ readyState[ws] = "OPEN"
                            THEN Append(sent[ws], data) ELSE sent[ws]
                   /\ objs'[sid].clients = objs[sid].clients
                   /\ getActiveStreams' = getActiveStreams
       /\ \A sid \in DOMAIN objs : \A ws \in objs[sid].clients :
            ws \notin objs'[sid].clients =>
               Unsubscribe(ws, objs[sid].channelId, objs[sid].quality, objs[sid].audio)
      ]_vars

\* wsB's connection closed while it was a client; the next chunk went to wsA
\* alone, and wsB is still a client and still counted
C19_Witness ==
    /\ Len(objs) = 1
    /\ objs[1].clients = {"wsA", "wsB"}
    /\ readyState["wsA"] = "OPEN" /\ readyState["wsB"] = "CLOSED"
    /\ objs[1].lastData = Chunk(1, 1)
    /\ sent["wsA"] = <<Chunk(1, 1)>> /\ sent["wsB"] = <<>>
    /\ ReportedClients(KeyOf(1)) = 2

\* p is the process of the session registered for its key
OwnsRegistered(p) ==
    /\ MapHas(streams, procs[p].key)
    /\ objs[streams[procs[p].key]].ffmpeg = p

\* C20: when the process of a registered session exits or errors, the
\* session leaves the registry in that step whatever its clients set holds,
\* nothing is sent to any connection, and getActiveStreams lists nothing for
\* the key; a key that is not registered becomes registered only by a
\* subscribe, which creates a new session for it.
C20_ExitRemovesSession ==
    [][/\ \A p \in DOMAIN procs :
            (OwnsRegistered(p) /\ (OnClose(p) \/ OnError(p))) =>
               /\ ~MapHas(streams', procs[p].key)
               /\ sent' = sent
               /\ ~\E e \in getActiveStreams' :
                      e.channelId = objs[procs[p].stream].channelId
                      /\ e.quality = objs[procs[p].stream].quality
       /\ \A c \in ChannelIds, q \in Qualities, a \in Audios :
            LET key == getStreamKey(c, q, a) IN
            (~MapHas(streams, key) /\ MapHas(streams', key)) =>
               /\ \E ws \in Conns, o \in SpawnOutcomes : Subscribe(ws, c, q, a, o)
               /\ streams'[key] = Len(objs) + 1
      ]_vars

\* the process of a session with two clients exited, and the registry and the
\* snapshot are empty
C20_Witness ==
    /\ Len(objs) = 1
    /\ objs[1].clients = {"wsA", "wsB"}
    /\ procs[1].state = "exited" /\ procs[1].signals = <<>>
    /\ streams = EmptyMap
    /\ getActiveStreams = {}
    /\ ~halted

\* C21: after shutdown() the registry is empty, no cleanup timer is pending,
\* and kill was called on every process of StreamManager that was running.
C21_ShutdownLeavesNothing ==
    [][Shutdown =>
          /\ streams' = EmptyMap
          /\ timers' = <<>>
          /\ \A p \in DOMAIN procs :
                Live(procs, p) => procs'[p].signals # <<>>
      ]_vars

\* the processes of the registered recordings
RegisteredRecProcs == {recs[recordings[c]].ffmpeg : c \in DOMAIN recordings}

\* C22: after stopAll() no channel is recording, and every process of a
\* recording that was registered has been sent SIGINT once and no other
\* signal.
C22_StopAllInterruptsEveryRecording ==
    [][StopAll =>
          /\ recordings' = EmptyMap
          /\ \A c \in RecChannels : ~isRecording(c)'
          /\ \A p \in RegisteredRecProcs : rprocs'[p].signals = <<"SIGINT">>
      ]_vars

\* stopAll ran with channels 5 and 6 recording
C22_Witness ==
    /\ halted
    /\ Len(rprocs) = 2
    /\ recordings = EmptyMap
    /\ \A p \in DOMAIN rprocs :
          rprocs[p].state = "running" /\ rprocs[p].signals = <<"SIGINT">>
    /\ rprocs[1].channelId # rprocs[2].channelId

\* the file name of a recording path without directory, timestamp and extension
NamePart(fp) == SubSeq(fp, 3, Len(fp) - 3)

\* C23: the file of a recording is {sanitized name}-{timestamp}.mp4, and the
\* sanitized name holds only alphanumerics and single separators: no two
\* separators are adjacent.
C23_SanitizedFileName ==
    \A r \in DOMAIN recs :
        LET fp == recs[r].filepath
            sn == NamePart(fp)
        IN  /\ fp[Len(fp)] = ".mp4"
            /\ fp[Len(fp) - 1] = timestamp(recs[r].startTime)
            /\ fp[Len(fp) - 2] = "-"
            /\ \A i \in DOMAIN sn : sn[i] \in Alnum \cup {"-"}
            /\ \A i \in 1..(Len(sn) - 1) : ~(sn[i] = "-" /\ sn[i + 1] = "-")

\* the configured DVR credentials
Secrets == {xvr.username, xvr.password}

\* no element of the sequence of strings is a credential
CredentialFree(seq) == \A i \in DOMAIN seq : seq[i] \notin Secrets

\* C24: nothing a caller is given depends on the configured username and
\* password: the GET /api/config response is the one every other choice of
\* credentials gives, and the results of startRecording and stopRecording
\* and the two snapshots hold no credential.
C24_CredentialsNeverReachACaller ==
    /\ response # NoResponse => \A other \in Configs : response = safeConfig(other)
    /\ result.message \notin Secrets
    /\ CredentialFree(result.filepath)
    /\ \A e \in getActiveRecordings :
          CredentialFree(e.filepath) /\ CredentialFree(e.channelName)
    /\ \A e \in getActiveStreams : e.quality \notin Secrets

\* C25: the exit of a process that is not the process of the session
\* registered for its key (it was killed by teardown and a new session was
\* created since) leaves the registry and every session as they were.
C25_LateExitKeepsNewSession ==
    [][\A p \in DOMAIN procs :
          (/\ MapHas(streams, procs[p].key)
           /\ ~OwnsRegistered(p)
           /\ (OnClose(p) \/ OnError(p)))
          => /\ streams' = streams
             /\ objs' = objs
      ]_vars

\* C26: a cleanup timer that fires after the session it was armed for left
\* the registry, with a new session registered for the key, neither removes
\* the new session nor kills its process.
C26_StaleTimerKeepsNewSession ==
    [][(/\ CleanupTimerFires
        /\ MapHas(streams, Head(timers).key)
        /\ streams[Head(timers).key] # Head(timers).stream)
       => LET sid == streams[Head(timers).key] IN
          /\ streams' = streams
          /\ procs'[objs[sid].ffmpeg] = procs[objs[sid].ffmpeg]
      ]_vars

\* p is the process of the recording registered for its channel
OwnsRegisteredRec(p) ==
    /\ MapHas(recordings, rprocs[p].channelId)
    /\ recs[recordings[rprocs[p].channelId]].ffmpeg = p

\* C27: the exit of a recording process that was stopped, after a new
\* recording of the channel was started, leaves the new recording registered:
\* the channel is still recording.
C27_LateExitKeepsNewRecording ==
    [][\A p \in DOMAIN rprocs :
          (/\ MapHas(recordings, rprocs[p].channelId)
           /\ ~OwnsRegisteredRec(p)
           /\ (RecOnClose(p) \/ RecOnError(p)))
          => /\ recordings' = recordings
             /\ isRecording(rprocs[p].channelId)'
      ]_vars

\* C28: every connection that subscribed to a key and has not unsubscribed is
\* a client of the session registered for the key, whenever one is registered.
C28_SubscribedAreClients ==
    \A c \in ChannelIds, q \in Qualities, a \in Audios :
        LET key == getStreamKey(c, q, a) IN
        MapHas(streams, key) => SubscribersOf(key) \subseteq objs[streams[key]].clients

\* the state of the session registered for the key is the one an
\* unsubscribe(ws, key) has just left: ws is not a client, and if there is no
\* client the timer of stream.cleanupTimer has its whole delay to run
JustUnsubscribed(ws, key) ==
    LET sid == streams[key] IN
    /\ ws \notin objs[sid].clients
    /\ <<ws, key>> \notin subscribed
    /\ objs[sid].clients = {} =>
          \E i \in PendingFor(sid) :
             timers[i].handle /\ timers[i].remaining = CLEANUP_DELAY_MS

\* C29: a second unsubscribe(ws, key) right after the first leaves the
\* clients set, the number of pending timers and their deadlines as the
\* first call left them.
C29_UnsubscribeIsIdempotent ==
    [][\A ws \in Conns, c \in ChannelIds, q \in Qualities, a \in Audios :
          LET key == getStreamKey(c, q, a) IN
          (/\ MapHas(streams, key)
           /\ JustUnsubscribed(ws, key)
           /\ Unsubscribe(ws, c, q, a))
          => /\ objs'[streams[key]].clients = objs[streams[key]].clients
             /\ Len(timers') = Len(timers)
             /\ timers' = timers
      ]_vars

\* C30: a chunk is sent only to connections that are clients of the session
\* that owns the process that wrote it, and the lastData of a session is a
\* chunk of the session's own process.
C30_ChunksStayInTheirSession ==
    [][/\ \A ws \in Conns : \A i \in DOMAIN NewlySent(ws) :
            LET d == NewlySent(ws)[i]
            IN  /\ d.proc \in DOMAIN procs
                /\ ws \in objs'[procs[d.proc].stream].clients
       /\ \A sid \in DOMAIN objs' :
            objs'[sid].lastData # Null =>
               /\ objs'[sid].lastData.proc = objs'[sid].ffmpeg
               /\ procs'[objs'[sid].ffmpeg].stream = sid
      ]_vars

\* two sessions of one key, one after the other: each connection was sent
\* the chunk of its own session's process only
C30_Witness ==
    /\ Len(objs) = 2
    /\ KeyOf(1) = KeyOf(2)
    /\ objs[1].clients = {"wsA"} /\ objs[2].clients = {"wsB"}
    /\ objs[1].lastData = Chunk(1, 1) /\ objs[2].lastData = Chunk(2, 1)
    /\ sent["wsA"] = <<Chunk(1, 1)>> /\ sent["wsB"] = <<Chunk(2, 1)>>

\* C31: no two recordings registered at the same time write to the same file:
\* for any two channels recording concurrently their filepaths differ.
C31_ConcurrentRecordingsWriteDistinctFiles ==
    \A c, d \in DOMAIN recordings :
        c # d => recs[recordings[c]].filepath # recs[recordings[d]].filepath

====
